---- MODULE Spec2Model ----
(***************************************************************************)
(* A model of the `now rm` command (main and readConfirmation) and of the  *)
(* collaborators it calls.  Strings are sequences of tokens, so that       *)
(* normalizeURL, trim and toLowerCase are computed, not assumed.           *)
(***************************************************************************)
EXTENDS Integers, Sequences, FiniteSets, TLC

\* ------------------------------------------------------------------ bounds
MaxIds == 2          \* positional identifiers on the command line
MaxDeployments == 2  \* deployments the list fetch returns
MaxAliases == 1      \* aliases one probe returns

\* ----------------------------------------------------------------- strings
Str(t) == <<t>>

SCHEME == "https://"
SLASH == "/"

Range(s) == {s[k] : k \in DOMAIN s}

\* normalizeURL of util/url: the scheme and a trailing slash are stripped.
StripSlash(u) ==
  IF Len(u) > 0 /\ u[Len(u)] = SLASH THEN SubSeq(u, 1, Len(u) - 1) ELSE u

StripScheme(u) ==
  IF Len(u) > 0 /\ u[1] = SCHEME THEN Tail(u) ELSE u

normalizeURL(u) == StripScheme(StripSlash(u))

\* String.prototype.trim and toLowerCase, on the characters stdin can carry.
WhiteSpace == {" ", "\n"}

RECURSIVE TrimLeft(_)
TrimLeft(s) ==
  IF Len(s) > 0 /\ s[1] \in WhiteSpace THEN TrimLeft(Tail(s)) ELSE s

RECURSIVE TrimRight(_)
TrimRight(s) ==
  IF Len(s) > 0 /\ s[Len(s)] \in WhiteSpace
  THEN TrimRight(SubSeq(s, 1, Len(s) - 1))
  ELSE s

trim(s) == TrimRight(TrimLeft(s))

LowerChar(c) ==
  CASE c = "Y" -> "y"
    [] c = "E" -> "e"
    [] c = "S" -> "s"
    [] c = "N" -> "n"
    [] OTHER -> c

toLowerCase(s) == [k \in DOMAIN s |-> LowerChar(s[k])]

\* ------------------------------------------------------------- input data
\* What the deployment directory may hold: uid, name and url of each entry.
\* Two deployments share a name; one url is stored with a trailing slash.
Depl(uid, name, url) ==
  [uid |-> uid, name |-> name, url |-> url, aliases |-> <<>>, attached |-> FALSE]

KnownDeployments ==
  { Depl(Str("a1"), Str("app"), Str("app.now.sh")),
    Depl(Str("a2"), Str("app"), <<"foo.com", SLASH>>),
    Depl(Str("a3"), Str("api"), Str("api.now.sh")) }

\* Identifiers the operator may type.
Identifiers ==
  { Str("a1"), Str("app"), <<SCHEME, "app.now.sh", SLASH>>, Str("foo.com"),
    Str("help") }

\* Lines the operator may answer the prompt with.
Lines ==
  { <<"y", "\n">>, <<"Y", "E", "S", "\n">>, <<" ", "Y", "e", "s", " ", "\n">>,
    <<"\n">>, <<>>, <<"n", "\n">>, <<"n", "o", "\n">>, <<"y", "e", "\n">>,
    <<"y", "e", "s", "s", "\n">>, <<"y", " ", "e", "s", "\n">> }

\* Failures a collaborator may raise.
ScopeErrors == {"not_authorized", "team_deleted", "missing_user"}
NoError == "none"

SeqsUpTo(S, n) == UNION {[1..k -> S] : k \in 0..n}

UniqueUids(ds) ==
  \A j, k \in DOMAIN ds : ds[j].uid = ds[k].uid => j = k

DeploymentLists == {ds \in SeqsUpTo(KnownDeployments, MaxDeployments) : UniqueUids(ds)}

AliasLists(uid) ==
  { [k \in 1..n |-> [alias |-> k, deployment |-> uid]] : n \in 0..MaxAliases }

\* ------------------------------------------------------------------ state
VARIABLES
  argv,         \* parsed command line: ids, help, yes, safe, hard
  directory,    \* what the deployment directory service holds
  pc,           \* where main is
  scopeError,   \* the error the catch around getScope caught
  spinner,      \* the wait() indicator is running
  deployments,  \* result of now.list
  matches,      \* the MatchResult list
  probes,       \* one getAliases call per match: [uid, state, result]
  probeJoin,    \* the Promise.all over the probes
  aliases,      \* the value the probe join resolved with
  removals,     \* one now.remove call per candidate: [uid, hard, state]
  removeJoin,   \* the Promise.all over the removals
  rejection,    \* the reason the first failing call rejected its join with
  removed,      \* uids the removal service has removed
  requests,     \* every call made to a collaborator, in order
  output,       \* what was written to the operator
  lineRead,     \* lines taken from stdin
  closed,       \* now.close() was called
  exitCode,     \* the value main returned (or process.exit was given)
  thrown,       \* the error main rejected with
  last,         \* the latest call of a library function, with its result
  prior         \* the call of a library function before that one

vars ==
  <<argv, directory, pc, scopeError, spinner, deployments, matches, probes,
    probeJoin, aliases, removals, removeJoin, rejection, removed, requests, output,
    lineRead, closed, exitCode, thrown, last, prior>>

NoExit == -1
NoCall == [fn |-> "none"]
NoThrow == [code |-> NoError, uid |-> <<>>]
Err(code, uid) == [code |-> code, uid |-> uid]

Msg(kind, text, n) == [kind |-> kind, text |-> text, n |-> n]
Req(op, uid, hard) == [op |-> op, uid |-> uid, hard |-> hard]

Init ==
  /\ argv \in [ids : SeqsUpTo(Identifiers, MaxIds), help : BOOLEAN,
               yes : BOOLEAN, safe : BOOLEAN, hard : BOOLEAN]
  /\ directory \in DeploymentLists
  /\ pc = "start"
  /\ scopeError = NoThrow
  /\ spinner = FALSE
  /\ deployments = <<>>
  /\ matches = <<>>
  /\ probes = <<>>
  /\ probeJoin = "none"
  /\ aliases = <<>>
  /\ removals = <<>>
  /\ removeJoin = "none"
  /\ rejection = NoThrow
  /\ removed = {}
  /\ requests = <<>>
  /\ output = <<>>
  /\ lineRead = <<>>
  /\ closed = FALSE
  /\ exitCode = NoExit
  /\ thrown = NoThrow
  /\ last = NoCall
  /\ prior = NoCall

\* ------------------------------------------------------- pure parts of main
\* The identifier is compared as typed.
IsMatchNoNormalize(d, id) == d.uid = id \/ d.name = id \/ d.url = id

\* The predicate of the filter that computes the matches.
IsMatch(d, id) == d.uid = id \/ d.name = id \/ d.url = normalizeURL(id)

\* One pass over the list per identifier, the passes concatenated.
RECURSIVE MatchesPerId(_, _)
MatchesPerId(ds, ids) ==
  IF ids = <<>> THEN <<>>
  ELSE SelectSeq(ds, LAMBDA d : d.uid = Head(ids) \/ d.name = Head(ids)
                                  \/ d.url = normalizeURL(Head(ids)))
         \o MatchesPerId(ds, Tail(ids))

FindMatchesPerId(ds, ids) == MatchesPerId(ds, ids)

FindMatches(ds, ids) ==
  SelectSeq(ds, LAMBDA d : \E k \in DOMAIN ids : IsMatch(d, ids[k]))

\* Only a second alias protects a deployment.
DroppedOffByOne(safe, al) == safe /\ Len(al) > 1

\* The callback of the second filter: drop or attach.
Dropped(safe, al) == safe /\ Len(al) > 0

RECURSIVE FilterFrom(_, _, _, _)
FilterFrom(ms, al, safe, i) ==
  IF i > Len(ms) THEN <<>>
  ELSE IF Dropped(safe, al[i]) THEN FilterFrom(ms, al, safe, i + 1)
  ELSE <<[ms[i] EXCEPT !.aliases = al[i], !.attached = TRUE]>>
         \o FilterFrom(ms, al, safe, i + 1)

\* The alias list is taken at the position in the filtered list.
SafetyFilterReindexed(ms, al, safe) ==
  LET keep == SelectSeq([k \in DOMAIN ms |-> k],
                        LAMBDA k : ~(safe /\ Len(al[k]) > 0))
  IN [k \in DOMAIN keep |->
        [ms[keep[k]] EXCEPT !.aliases = al[k], !.attached = TRUE]]

SafetyFilter(ms, al, safe) == FilterFrom(ms, al, safe, 1)

\* match.aliases = ... writes to the object the fetched list holds too.
Annotate(ds, kept) ==
  [k \in DOMAIN ds |->
     IF \E j \in DOMAIN kept : kept[j].uid = ds[k].uid
     THEN CHOOSE m \in Range(kept) : m.uid = ds[k].uid
     ELSE ds[k]]

\* The empty answer counts as yes.
AffirmativeByDefault(confirmation) ==
  confirmation = <<>> \/ confirmation = <<"y">> \/ confirmation = <<"y", "e", "s">>

Affirmative(confirmation) ==
  confirmation = <<"y">> \/ confirmation = <<"y", "e", "s">>

\* What readConfirmation writes before it listens on stdin.
RECURSIVE Warnings(_)
Warnings(ms) ==
  IF ms = <<>> THEN <<>>
  ELSE [k \in DOMAIN Head(ms).aliases |->
          Msg("warn", Head(ms).url, Head(ms).aliases[k].alias)]
       \o Warnings(Tail(ms))

PromptOutput(ms) ==
  <<Msg("will_remove", <<>>, Len(ms)), Msg("table", <<>>, Len(ms))>>
    \o Warnings(ms) \o <<Msg("prompt", <<>>, 0)>>

RemoveCalls(ms, hard) ==
  [k \in DOMAIN ms |->
     [uid |-> ms[k].uid, hard |-> hard, state |-> "pending", order |-> 0]]

RemoveRequests(ms, hard) ==
  [k \in DOMAIN ms |-> Req("remove", ms[k].uid, hard)]

AllIn(calls, state) == \A k \in DOMAIN calls : calls[k].state = state
AnyIn(calls, state) == \E k \in DOMAIN calls : calls[k].state = state

\* Promise.all after one of its promises settled: rejected by the first
\* failure, resolved once every promise is fulfilled, and settled only once.
PromiseAll(join, calls) ==
  IF join # "pending" THEN join
  ELSE IF AnyIn(calls, "failed") THEN "rejected"
  ELSE IF AllIn(calls, "ok") THEN "resolved"
  ELSE "pending"

\* A join that waits for every promise and never rejects.
PromiseAllSettled(join, calls) ==
  IF join # "pending" THEN join
  ELSE IF AnyIn(calls, "pending") THEN "pending"
  ELSE "resolved"

\* The results in the order in which the calls settled.
ResultsByArrival(calls) ==
  [k \in DOMAIN calls |->
     IF \E j \in DOMAIN calls : calls[j].order = k
     THEN calls[CHOOSE j \in DOMAIN calls : calls[j].order = k].result
     ELSE calls[k].result]

\* The value Promise.all resolves with: the results in the order of the
\* promises it was given.
JoinedResults(calls) == [k \in DOMAIN calls |-> calls[k].result]

\* A join that resolves as soon as one promise is fulfilled.
PromiseRace(join, calls) ==
  IF join # "pending" THEN join
  ELSE IF AnyIn(calls, "failed") THEN "rejected"
  ELSE IF AnyIn(calls, "ok") THEN "resolved"
  ELSE "pending"

\* A join that resolves when every promise is fulfilled and ignores failures.
PromiseAllNoReject(join, calls) ==
  IF join # "pending" THEN join
  ELSE IF AllIn(calls, "ok") THEN "resolved"
  ELSE "pending"

ProbeJoinAfter(join, calls) == PromiseAll(join, calls)

RemoveJoinAfter(join, calls) == PromiseAll(join, calls)

\* The position of the next settlement among the calls of one join.
NextOrder(calls) == Cardinality({k \in DOMAIN calls : calls[k].state # "pending"}) + 1

\* ---------------------------------------------------------------- actions
Returns(code) == pc' = "done" /\ exitCode' = code /\ thrown' = thrown
Throws(e) == pc' = "thrown" /\ thrown' = e /\ exitCode' = exitCode

HelpWanted(a) == a.help \/ a.ids[1] = Str("help")

\* main from its first line to `await getScope(...)`.
Start ==
  /\ pc = "start"
  /\ IF Len(argv.ids) < 1
     THEN /\ output' = output \o <<Msg("error_usage", <<>>, 0), Msg("help", <<>>, 0)>>
          /\ Returns(1)
          /\ requests' = requests
     ELSE IF HelpWanted(argv)
     THEN /\ output' = Append(output, Msg("help", <<>>, 0))
          /\ Returns(2)
          /\ requests' = requests
     ELSE /\ requests' = Append(requests, Req("getScope", <<>>, FALSE))
          /\ pc' = "scope"
          /\ UNCHANGED <<output, exitCode, thrown>>
  /\ UNCHANGED <<last, prior, argv, directory, scopeError, spinner, deployments, matches, probes,
                 probeJoin, aliases, removals, removeJoin, rejection, removed, lineRead,
                 closed>>

\* getScope resolved: build the client, start the spinner, `await now.list`.
ScopeResolved ==
  /\ pc = "scope"
  /\ spinner' = TRUE
  /\ requests' = Append(requests, Req("list", <<>>, FALSE))
  /\ pc' = "list"
  /\ UNCHANGED <<last, prior, argv, directory, scopeError, deployments, matches, probes, probeJoin,
                 aliases, removals, removeJoin, rejection, removed, output, lineRead,
                 closed, exitCode, thrown>>

\* Every getScope failure is reported and turned into exit code 1.
ScopeRejectedCatchAll(code) ==
  /\ pc = "scope"
  /\ scopeError' = Err(code, <<>>)
  /\ output' = Append(output, Msg("error_auth", <<>>, 0))
  /\ Returns(1)
  /\ UNCHANGED <<last, prior, argv, directory, spinner, deployments, matches, probes,
                 probeJoin, aliases, removals, removeJoin, rejection, removed,
                 requests, lineRead, closed>>

\* getScope rejected: the catch around it.
ScopeRejected(code) ==
  /\ pc = "scope"
  /\ scopeError' = Err(code, <<>>)
  /\ IF code = "not_authorized"
     THEN /\ output' = Append(output, Msg("error_auth", <<>>, 0))
          /\ Returns(1)
     ELSE /\ Throws(Err(code, <<>>))
          /\ output' = output
  /\ UNCHANGED <<last, prior, argv, directory, spinner, deployments, matches, probes,
                 probeJoin, aliases, removals, removeJoin, rejection, removed, requests,
                 lineRead, closed>>

\* now.list resolved: compute the matches and start one probe per match.
ListResolved ==
  /\ pc = "list"
  /\ deployments' = directory
  /\ matches' = FindMatches(directory, argv.ids)
  /\ probes' = [k \in DOMAIN matches' |->
                  [uid |-> matches'[k].uid, state |-> "pending", result |-> <<>>,
                   order |-> 0]]
  /\ requests' = requests \o
                   [k \in DOMAIN matches' |-> Req("getAliases", matches'[k].uid, FALSE)]
  /\ probeJoin' = IF Len(matches') = 0 THEN "resolved" ELSE "pending"
  /\ pc' = "probes"
  /\ UNCHANGED <<last, prior, argv, directory, scopeError, spinner, aliases, removals, removeJoin, rejection,
                 removed, output, lineRead, closed, exitCode, thrown>>

\* now.list rejected.
ListRejected ==
  /\ pc = "list"
  /\ spinner' = FALSE
  /\ Throws(Err("list_failed", <<>>))
  /\ UNCHANGED <<last, prior, argv, directory, scopeError, deployments, matches, probes, probeJoin,
                 aliases, removals, removeJoin, rejection, removed, requests, output,
                 lineRead, closed>>

\* One getAliases call answers; the join resolves with the last answer.
ProbeResolved(i, al) ==
  /\ i \in DOMAIN probes
  /\ probes[i].state = "pending"
  /\ probes' = [probes EXCEPT ![i].state = "ok", ![i].result = al,
                               ![i].order = NextOrder(probes)]
  /\ probeJoin' = ProbeJoinAfter(probeJoin, probes')
  /\ UNCHANGED <<last, prior, argv, directory, scopeError, pc, spinner, deployments, matches, aliases,
                 removals, removeJoin, rejection, removed, requests, output, lineRead,
                 closed, exitCode, thrown>>

\* One getAliases call fails; the first failure rejects the join.
ProbeRejected(i) ==
  /\ i \in DOMAIN probes
  /\ probes[i].state = "pending"
  /\ probes' = [probes EXCEPT ![i].state = "failed",
                               ![i].order = NextOrder(probes)]
  /\ probeJoin' = ProbeJoinAfter(probeJoin, probes')
  /\ rejection' = IF probeJoin = "pending" /\ probeJoin' = "rejected"
                  THEN Err("probe_failed", probes[i].uid) ELSE rejection
  /\ UNCHANGED <<last, prior, argv, directory, scopeError, pc, spinner, deployments, matches, aliases,
                 removals, removeJoin, removed, requests, output, lineRead,
                 closed, exitCode, thrown>>

\* The --yes flag is not honoured.
SkipConfirmationNever(a) == FALSE

\* const skipConfirmation = argv.yes || false
SkipConfirmation(a) == a.yes

\* The empty candidate set is not noticed.
NothingToRemoveNever(ms) == Len(ms) < 0

NothingToRemove(ms) == Len(ms) = 0

\* The message never mentions the safe flag.
NotFoundMsgPlain(a) == Msg("not_found", Str("any"), Len(a.ids))

NotFoundMsg(a) ==
  Msg("not_found", IF a.safe THEN Str("unaliased") ELSE Str("any"), Len(a.ids))

\* The probe join resolved: main goes on from `cancelWait()` through the
\* safety filter to the next await (the prompt, or the removals), or returns.
ProbesJoined ==
  /\ pc = "probes"
  /\ probeJoin = "resolved"
  /\ aliases' = JoinedResults(probes)
  /\ spinner' = FALSE
  /\ matches' = SafetyFilter(matches, aliases', argv.safe)
  /\ deployments' = Annotate(deployments, matches')
  /\ IF NothingToRemove(matches')
     THEN /\ output' = Append(output, NotFoundMsg(argv))
          /\ Returns(0)
          /\ UNCHANGED <<removals, removeJoin, requests>>
     ELSE IF ~SkipConfirmation(argv)
     THEN /\ output' = Append(output, Msg("found", <<>>, Len(matches')))
                         \o PromptOutput(matches')
          /\ pc' = "confirm"
          /\ UNCHANGED <<removals, removeJoin, requests, exitCode, thrown>>
     ELSE /\ output' = Append(output, Msg("found", <<>>, Len(matches')))
          /\ removals' = RemoveCalls(matches', argv.hard)
          /\ requests' = requests \o RemoveRequests(matches', argv.hard)
          /\ removeJoin' = "pending"
          /\ pc' = "removing"
          /\ UNCHANGED <<exitCode, thrown>>
  /\ UNCHANGED <<last, prior, argv, directory, scopeError, probes, probeJoin, rejection, removed,
                 lineRead, closed>>

\* The probe join rejected: the catch stops the spinner and rethrows.
ProbesFailed ==
  /\ pc = "probes"
  /\ probeJoin = "rejected"
  /\ spinner' = FALSE
  /\ Throws(rejection)
  /\ UNCHANGED <<last, prior, argv, directory, scopeError, deployments, matches, probes, probeJoin,
                 aliases, removals, removeJoin, rejection, removed, requests,
                 output, lineRead, closed>>

\* stdin delivers a line: readConfirmation resolves and main compares it.
ReadLine(line) ==
  /\ pc = "confirm"
  /\ lineRead' = Append(lineRead, line)
  /\ IF ~Affirmative(toLowerCase(trim(line)))
     THEN /\ output' = Append(output, Msg("aborted", <<>>, 0))
          /\ closed' = TRUE
          /\ Returns(1)
          /\ UNCHANGED <<removals, removeJoin, requests>>
     ELSE /\ removals' = RemoveCalls(matches, argv.hard)
          /\ requests' = requests \o RemoveRequests(matches, argv.hard)
          /\ removeJoin' = "pending"
          /\ pc' = "removing"
          /\ UNCHANGED <<output, closed, exitCode, thrown>>
  /\ UNCHANGED <<last, prior, argv, directory, scopeError, spinner, deployments, matches, probes,
                 probeJoin, aliases, rejection, removed>>

\* One now.remove call succeeds at the removal service.
RemoveResolved(i) ==
  /\ i \in DOMAIN removals
  /\ removals[i].state = "pending"
  /\ removals' = [removals EXCEPT ![i].state = "ok",
                                   ![i].order = NextOrder(removals)]
  /\ removed' = removed \cup {removals[i].uid}
  /\ removeJoin' = RemoveJoinAfter(removeJoin, removals')
  /\ UNCHANGED <<last, prior, argv, directory, scopeError, pc, spinner, deployments, matches, probes,
                 probeJoin, aliases, rejection, requests, output, lineRead,
                 closed, exitCode, thrown>>

\* One now.remove call fails; the first failure rejects the join.
RemoveRejected(i) ==
  /\ i \in DOMAIN removals
  /\ removals[i].state = "pending"
  /\ removals' = [removals EXCEPT ![i].state = "failed",
                                   ![i].order = NextOrder(removals)]
  /\ removeJoin' = RemoveJoinAfter(removeJoin, removals')
  /\ rejection' = IF removeJoin = "pending" /\ removeJoin' = "rejected"
                  THEN Err("remove_failed", removals[i].uid) ELSE rejection
  /\ UNCHANGED <<last, prior, argv, directory, scopeError, pc, spinner, deployments, matches, probes,
                 probeJoin, aliases, removed, requests, output, lineRead,
                 closed, exitCode, thrown>>

RemovedLines(ms) == [k \in DOMAIN ms |-> Msg("removed", ms[k].url, 0)]

\* The removal join resolved: report and process.exit(0).
RemovalsJoined ==
  /\ pc = "removing"
  /\ removeJoin = "resolved"
  /\ output' = Append(output, Msg("success", <<>>, Len(matches)))
                 \o RemovedLines(matches)
  /\ Returns(0)
  /\ UNCHANGED <<last, prior, argv, directory, scopeError, spinner, deployments, matches, probes,
                 probeJoin, aliases, removals, removeJoin, rejection, removed,
                 requests, lineRead, closed>>

\* The removals that succeeded are undone before main rejects.
RemovalsFailedRollback ==
  /\ pc = "removing"
  /\ removeJoin = "rejected"
  /\ removed' = removed \ {removals[k].uid : k \in DOMAIN removals}
  /\ requests' = Append(requests, Req("restore", <<>>, FALSE))
  /\ Throws(rejection)
  /\ UNCHANGED <<last, prior, argv, directory, scopeError, spinner, deployments, matches,
                 probes, probeJoin, aliases, removals, removeJoin, rejection,
                 output, lineRead, closed>>

\* The removal join rejected: nothing catches it, main rejects.
RemovalsFailed ==
  /\ pc = "removing"
  /\ removeJoin = "rejected"
  /\ Throws(rejection)
  /\ UNCHANGED <<last, prior, argv, directory, scopeError, spinner, deployments, matches, probes,
                 probeJoin, aliases, removals, removeJoin, rejection, removed,
                 requests, output, lineRead, closed>>

Next ==
  \/ Start
  \/ ScopeResolved
  \/ \E code \in ScopeErrors : ScopeRejected(code)
  \/ ListResolved
  \/ ListRejected
  \/ \E i \in DOMAIN probes : \E al \in AliasLists(probes[i].uid) : ProbeResolved(i, al)
  \/ \E i \in DOMAIN probes : ProbeRejected(i)
  \/ ProbesJoined
  \/ ProbesFailed
  \/ \E line \in Lines : ReadLine(line)
  \/ \E i \in DOMAIN removals : RemoveResolved(i)
  \/ \E i \in DOMAIN removals : RemoveRejected(i)
  \/ RemovalsJoined
  \/ RemovalsFailed

Spec == Init /\ [][Next]_vars

\* ----------------------------------------------------------------- claims
RemoveRequestsFor(uid) ==
  {k \in DOMAIN requests : requests[k].op = "remove" /\ requests[k].uid = uid}

NoRemoveRequest == \A k \in DOMAIN requests : requests[k].op # "remove"

Written(kind) == \E k \in DOMAIN output : output[k].kind = kind

KnownUids == {d.uid : d \in KnownDeployments}

Uids(seq) == [k \in DOMAIN seq |-> seq[k].uid]

\* main has run the safety filter.
Filtered == pc \in {"confirm", "removing", "done", "thrown"} /\ probeJoin = "resolved"

\* The lines of Lines whose trimmed text is y or yes in any letter case.
YesLines ==
  { <<"y", "\n">>, <<"Y", "E", "S", "\n">>, <<" ", "Y", "e", "s", " ", "\n">> }

\* C1: with the safe flag set, no removal request is ever issued for a
\* deployment whose alias probe returned a non-empty alias list.
C1_SafeNeverRemovesAliased ==
  argv.safe =>
    \A i \in DOMAIN probes :
      (probes[i].state = "ok" /\ Len(probes[i].result) > 0)
        => RemoveRequestsFor(probes[i].uid) = {}

\* A safe run that protected one aliased deployment and removes another.
C1_Witness ==
  /\ argv.safe
  /\ \E i \in DOMAIN probes : probes[i].state = "ok" /\ Len(probes[i].result) > 0
  /\ ~NoRemoveRequest

\* C2: when confirmation is not skipped, removal requests are issued only
\* if the line read is y or yes after trimming, in any letter case; after
\* any other line, the empty one included, there are no removal requests
\* and main has returned 1.
C2_OnlyYesRemoves ==
  ~argv.yes =>
    /\ ~NoRemoveRequest => (Len(lineRead) = 1 /\ lineRead[1] \in YesLines)
    /\ (Len(lineRead) > 0 /\ lineRead[1] \notin YesLines)
         => (NoRemoveRequest /\ pc = "done" /\ exitCode = 1)

\* The operator answered with the empty line and main returned 1.
C2_Witness ==
  /\ ~argv.yes
  /\ lineRead = << <<>> >>
  /\ exitCode = 1
  /\ NoRemoveRequest

\* C3: once the removals are started there is exactly one removal request
\* for each candidate uid and none for any other uid, and if one of them
\* has failed there is no success report and no exit code 0.
C3_OneRequestEachAndFailureWins ==
  removeJoin # "none" =>
    /\ \A u \in KnownUids :
         Cardinality(RemoveRequestsFor(u)) =
           IF \E k \in DOMAIN matches : matches[k].uid = u THEN 1 ELSE 0
    /\ AnyIn(removals, "failed") => (~Written("success") /\ exitCode # 0)

\* One removal succeeded, another failed, and main rejected.
C3_Witness ==
  /\ pc = "thrown"
  /\ thrown.code = "remove_failed"
  /\ AnyIn(removals, "ok")
  /\ AnyIn(removals, "failed")

\* C4 as stated: the deployment's url is normalized before it is compared.
ClaimedMatch(d, id) ==
  d.uid = id \/ d.name = id \/ normalizeURL(id) = normalizeURL(d.url)

C4_MatchSetNormalizesBothSides ==
  pc = "probes" =>
    \A d \in Range(deployments) :
      d \in Range(matches) <=> \E k \in DOMAIN argv.ids : ClaimedMatch(d, argv.ids[k])

\* C4: the match set is exactly the deployments d of the fetched list for
\* which some identifier i has i = d.uid, or i = d.name, or
\* normalize(i) = d.url; only the identifier is normalized.
C4_MatchSetNormalizesIdentifier ==
  pc = "probes" =>
    /\ \A d \in Range(deployments) :
         d \in Range(matches) <=>
           \E k \in DOMAIN argv.ids :
             \/ argv.ids[k] = d.uid
             \/ argv.ids[k] = d.name
             \/ StripScheme(StripSlash(argv.ids[k])) = d.url
    /\ Range(matches) \subseteq Range(deployments)

\* A deployment was matched by a url typed with scheme and trailing slash.
C4_Witness ==
  /\ pc = "probes"
  /\ argv.ids = << <<SCHEME, "app.now.sh", SLASH>> >>
  /\ Len(matches) = 1
  /\ matches[1].url = Str("app.now.sh")

\* C5: the match set holds only deployments of the fetched list and each
\* uid at most once, and no uid ever gets more than one removal request,
\* also when several identifiers match the same deployment.
C5_MatchesUniqueAndFromList ==
  /\ pc = "probes" =>
       (Range(matches) \subseteq Range(directory) /\ UniqueUids(matches))
  /\ \A u \in KnownUids : Cardinality(RemoveRequestsFor(u)) <= 1

\* A deployment named by its uid and by its name got its removal request.
C5_Witness ==
  /\ argv.ids = <<Str("a1"), Str("app")>>
  /\ RemoveRequestsFor(Str("a1")) # {}

\* C6: after the safety filter, with safe mode on the candidates are
\* exactly the matched deployments whose alias list is empty, with safe
\* mode off they are all the matched deployments in their original order,
\* and every candidate is the fetched deployment with the alias list its
\* probe returned attached.
C6_SafetyFilterResult ==
  Filtered =>
    /\ argv.safe =>
         Range(Uids(matches)) =
           {probes[i].uid : i \in {j \in DOMAIN probes : Len(probes[j].result) = 0}}
    /\ ~argv.safe => Uids(matches) = Uids(probes)
    /\ \A k \in DOMAIN matches :
         /\ matches[k].attached
         /\ \E i \in DOMAIN probes :
              probes[i].uid = matches[k].uid /\ matches[k].aliases = probes[i].result
         /\ [matches[k] EXCEPT !.aliases = <<>>, !.attached = FALSE] \in Range(directory)

\* Safe mode dropped one aliased match and kept an unaliased one.
C6_Witness ==
  /\ Filtered
  /\ argv.safe
  /\ Len(matches) > 0
  /\ Len(matches) < Len(probes)

\* C7: once an alias probe has failed, main stops at the probe join or
\* rejects with the first probe failure: no prompt is written, no line is
\* read, no alias list is attached to any deployment and no removal
\* request is issued.
C7_ProbeFailureAborts ==
  AnyIn(probes, "failed") =>
    /\ pc \in {"probes", "thrown"}
    /\ pc = "thrown" => (thrown = rejection /\ thrown.code = "probe_failed")
    /\ exitCode = NoExit
    /\ ~Written("prompt")
    /\ lineRead = <<>>
    /\ \A d \in Range(deployments) \cup Range(matches) : ~d.attached /\ d.aliases = <<>>
    /\ NoRemoveRequest

\* One probe returned an alias, another failed, and main rejected.
C7_Witness ==
  /\ pc = "thrown"
  /\ AnyIn(probes, "failed")
  /\ \E i \in DOMAIN probes : probes[i].state = "ok" /\ Len(probes[i].result) > 0

\* C8: after a not_authorized failure of getScope main has returned 1 and
\* has made no call but getScope; after any other getScope failure main
\* has rejected with that error and has returned no exit code.
C8_ScopeFailure ==
  /\ scopeError.code = "not_authorized" =>
       /\ pc = "done" /\ exitCode = 1 /\ thrown = NoThrow
       /\ requests = <<Req("getScope", <<>>, FALSE)>>
  /\ scopeError.code \notin {NoError, "not_authorized"} =>
       /\ pc = "thrown" /\ thrown = scopeError /\ exitCode = NoExit
       /\ requests = <<Req("getScope", <<>>, FALSE)>>

\* The credential was rejected and main returned 1.
C8_Witness ==
  /\ scopeError.code = "not_authorized"
  /\ exitCode = 1
  /\ Written("error_auth")

\* C9: after a removal request has failed no further call is made to any
\* collaborator (nothing compensates or cancels), no other request is
\* marked cancelled, and every removal that succeeded, before or after
\* the failure, is still removed at the removal service.
C9_NoRollbackNoCancel ==
  AnyIn(removals, "failed") =>
    /\ Len(requests) = 2 + Len(probes) + Len(removals)
    /\ \A k \in DOMAIN requests : requests[k].op \in {"getScope", "list", "getAliases", "remove"}
    /\ \A i \in DOMAIN removals :
         /\ removals[i].state \in {"pending", "ok", "failed"}
         /\ removals[i].state = "ok" => removals[i].uid \in removed
    /\ exitCode # 0

\* A removal succeeded after a sibling had failed and main had rejected.
C9_Witness ==
  /\ pc = "thrown"
  /\ \E i, j \in DOMAIN removals :
       /\ removals[i].state = "failed"
       /\ removals[j].state = "ok"
       /\ removals[j].order > removals[i].order
       /\ removals[j].uid \in removed

\* C10: when the candidate set is empty after resolution and filtering,
\* main has returned 0, has written no prompt, has read no line and has
\* issued no removal request; and when no deployment matched, the probe
\* join cannot fail.
C10_EmptySetExitsZero ==
  /\ (Filtered /\ Len(matches) = 0) =>
       /\ pc = "done" /\ exitCode = 0 /\ thrown = NoThrow
       /\ ~Written("prompt")
       /\ lineRead = <<>>
       /\ NoRemoveRequest
  /\ (pc = "probes" /\ Len(matches) = 0) => probeJoin = "resolved"

\* Safe mode filtered out every match and main returned 0.
C10_Witness ==
  /\ Filtered
  /\ Len(matches) = 0
  /\ Len(probes) > 0
  /\ exitCode = 0

\* The variant of the not-found message, once it is written.
NotFoundVariant == (CHOOSE k \in DOMAIN output : output[k].kind = "not_found")

\* C11 as stated: the message is the unaliased variant exactly when some
\* deployment matched and all matches were filtered out.
C11_UnaliasedOnlyWhenSafeEmptied ==
  Written("not_found") =>
    (output[NotFoundVariant].text = Str("unaliased") <=> Len(probes) > 0)

\* C11: the empty-result message is the unaliased variant exactly when the
\* safe flag is set, whether or not any deployment matched.
C11_UnaliasedFollowsSafeFlag ==
  Written("not_found") =>
    /\ Filtered /\ Len(matches) = 0
    /\ output[NotFoundVariant].text = Str("unaliased") <=> argv.safe
    /\ output[NotFoundVariant].text = Str("any") <=> ~argv.safe

\* Nothing matched, the safe flag was set, and the message says unaliased.
C11_Witness ==
  /\ Written("not_found")
  /\ argv.safe
  /\ Len(probes) = 0
  /\ output[NotFoundVariant].text = Str("unaliased")

\* Help is requested by the flag or by the first identifier.
HelpRequested ==
  argv.help \/ (Len(argv.ids) >= 1 /\ argv.ids[1] = Str("help"))

\* C12: whenever help is requested main returns 2 and calls no
\* collaborator, and exit code 1 is returned only for a usage error, an
\* authorization failure or a declined confirmation.
C12_HelpExitsTwo ==
  /\ (HelpRequested /\ pc # "start") =>
       (pc = "done" /\ exitCode = 2 /\ requests = <<>>)
  /\ exitCode = 1 =>
       (Written("error_usage") \/ Written("error_auth") \/ Written("aborted"))

\* C13: with the skip-confirmation flag set no prompt is ever written and
\* no line is ever read or waited for, and once the safety filter has left
\* a non-empty candidate set every candidate has its removal request.
C13_YesSkipsConfirmation ==
  argv.yes =>
    /\ ~Written("prompt") /\ ~Written("will_remove") /\ ~Written("table")
    /\ lineRead = <<>>
    /\ pc # "confirm"
    /\ (Filtered /\ Len(matches) > 0) =>
         \A k \in DOMAIN matches : RemoveRequestsFor(matches[k].uid) # {}

\* With --yes, two candidates went straight to their removal requests.
C13_Witness ==
  /\ argv.yes
  /\ pc = "removing"
  /\ Len(matches) = 2
  /\ Len(removals) = 2

\* C17: whatever the order in which the probes complete, the alias list
\* the safety filter uses for a deployment, and attaches to it if it
\* survives, is the list the probe issued for that deployment's uid
\* returned.
C17_AliasesByOriginNotArrival ==
  Filtered =>
    /\ \A i \in DOMAIN probes :
         /\ aliases[i] = probes[i].result
         /\ \A a \in Range(aliases[i]) : a.deployment = probes[i].uid
         /\ argv.safe =>
              ((\E k \in DOMAIN matches : matches[k].uid = probes[i].uid)
                 <=> Len(probes[i].result) = 0)
    /\ \A k \in DOMAIN matches :
         \A a \in Range(matches[k].aliases) : a.deployment = matches[k].uid

\* The second probe answered before the first, which returned an alias,
\* and the filter has run and kept a deployment.
C17_Witness ==
  /\ Filtered
  /\ Len(probes) = 2
  /\ probes[2].order = 1
  /\ probes[1].order = 2
  /\ Len(probes[1].result) > 0
  /\ Len(matches) > 0

Before(opA, opB) ==
  \A j, k \in DOMAIN requests :
    (requests[j].op = opA /\ requests[k].op = opB) => j < k

\* C18: no alias probe is issued before the deployment list fetch has
\* completed, no prompt is written before every alias probe has completed
\* successfully, and no removal request is issued before the safety
\* filter has run and confirmation was obtained or skipped.
C18_StagesDoNotOverlap ==
  /\ (\E k \in DOMAIN requests : requests[k].op = "getAliases") =>
       (pc \notin {"start", "scope", "list"} /\ Before("list", "getAliases"))
  /\ Written("prompt") => (probeJoin = "resolved" /\ AllIn(probes, "ok"))
  /\ ~NoRemoveRequest =>
       /\ Filtered
       /\ AllIn(probes, "ok")
       /\ \A k \in DOMAIN matches : matches[k].attached
       /\ argv.yes \/ (Len(lineRead) = 1 /\ lineRead[1] \in YesLines)
       /\ Before("getAliases", "remove")
       /\ Before("list", "remove")

\* Two probes were joined, the operator said yes, the removals are out.
C18_Witness ==
  /\ ~NoRemoveRequest
  /\ ~argv.yes
  /\ Len(probes) = 2
  /\ Len(lineRead) = 1

\* ---------------------------------------------------------------- liveness
\* The continuations of main that the event loop runs by itself.
MainStep ==
  \/ Start
  \/ ProbesJoined
  \/ ProbesFailed
  \/ RemovalsJoined
  \/ RemovalsFailed

\* The answers of the collaborators.
Responses ==
  \/ ScopeResolved
  \/ \E code \in ScopeErrors : ScopeRejected(code)
  \/ ListResolved
  \/ ListRejected
  \/ \E i \in DOMAIN probes : \E al \in AliasLists(probes[i].uid) : ProbeResolved(i, al)
  \/ \E i \in DOMAIN probes : ProbeRejected(i)
  \/ \E i \in DOMAIN removals : RemoveResolved(i)
  \/ \E i \in DOMAIN removals : RemoveRejected(i)

\* The operator's line on stdin.
OperatorLine == \E line \in Lines : ReadLine(line)

\* Every collaborator eventually answers, the operator eventually supplies
\* a line when asked, and the event loop runs main's continuations.
FairSpec ==
  /\ Init
  /\ [][Next]_vars
  /\ WF_vars(MainStep)
  /\ WF_vars(Responses)
  /\ WF_vars(OperatorLine)

Terminal == pc \in {"done", "thrown"}

\* C19: when every collaborator eventually answers and the operator
\* eventually supplies a line, main eventually returns or rejects; a line
\* is taken from the operator only at the confirmation read, and everywhere
\* else main can go on without the operator.
C19_TerminatesWhenAllRespond ==
  /\ <>Terminal
  /\ [](ENABLED OperatorLine => pc = "confirm")
  /\ []((~Terminal /\ pc # "confirm") => ENABLED (MainStep \/ Responses))

\* main waited for the operator, got a yes, and returned after the removals.
C19_Witness ==
  /\ pc = "done"
  /\ exitCode = 0
  /\ Len(lineRead) = 1
  /\ removeJoin = "resolved"

\* ------------------------------------------------------- the error taxonomy
\* JavaScript values: a type tag and the text of the value as tokens.
Val(t, v) == [t |-> t, v |-> v]
S(x) == Val("string", <<x>>)
Num(digits) == Val("number", digits)
NaN == Val("number", <<"NaN">>)

\* An object is a function from the names of its own fields to values.
EmptyObject == [f \in {} |-> S("")]

\* Object.assign-like write of the fields of `src` over `obj`.
WithFields(obj, src, names) ==
  [f \in DOMAIN obj \cup names |-> IF f \in names THEN src[f] ELSE obj[f]]

\* The NowError base class keeps the code, the message and the meta of the
\* object it is given; meta fields are written meta.<name>.
NowError(code, message, meta) ==
  WithFields([f \in {"code", "message"} |->
                IF f = "code" THEN S(code) ELSE Val("string", message)],
             meta, DOMAIN meta)

Meta1(name, value) == [f \in {name} |-> S(value)]

Meta2(nameA, valueA, nameB, valueB) ==
  [f \in {nameA, nameB} |-> IF f = nameA THEN S(valueA) ELSE S(valueB)]

TeamDeleted ==
  NowError("team_deleted", <<"Your team was deleted.">>, EmptyObject)

InvalidToken ==
  NowError("not_authorized", <<"The specified token is not valid">>, EmptyObject)

MissingUser ==
  NowError("missing_user", <<"Not able to load user, missing from response">>,
           EmptyObject)

ConflictingOption(name) ==
  NowError("conflicting_option", <<"You can't use ... for option ", name>>,
           Meta1("meta.name", name))

DomainPermissionDenied(domain, context) ==
  NowError("DOMAIN_PERMISSION_DENIED",
           <<"You don't have access to the domain ", domain, " under ", context, ".">>,
           Meta2("meta.domain", domain, "meta.context", context))

\* The code of the sibling class is pasted.
DomainNotFoundPastedCode(domain) ==
  NowError("DOMAIN_PERMISSION_DENIED",
           <<"The domain ", domain, " can't be found.">>,
           Meta1("meta.domain", domain))

DomainNotFound(domain) ==
  NowError("DOMAIN_NOT_FOUND",
           <<"The domain ", domain, " can't be found.">>,
           Meta1("meta.domain", domain))

\* parseInt(text, 10) on a header value given as characters.
Digits == {"0", "1", "2", "3"}

RECURSIVE LeadingDigits(_)
LeadingDigits(chars) ==
  IF chars # <<>> /\ Head(chars) \in Digits
  THEN <<Head(chars)>> \o LeadingDigits(Tail(chars))
  ELSE <<>>

parseInt(chars) ==
  IF LeadingDigits(chars) = <<>> THEN NaN ELSE Num(LeadingDigits(chars))

\* A response: its status and its Retry-After header (hasRetryAfter is
\* false when headers.get returns null).
Response(status, hasRetryAfter, retryAfter) ==
  [status |-> status, hasRetryAfter |-> hasRetryAfter, retryAfter |-> retryAfter]

\* The constructor of APIError; hasBody is false when no body is passed.
APIError(message, response, hasBody, body) ==
  LET base == [f \in {"message", "status", "serverMessage"} |->
                 CASE f = "message" ->
                        Val("string", <<message, " (">> \o response.status.v \o <<")">>)
                   [] f = "status" -> response.status
                   [] f = "serverMessage" -> S(message)]
      copied == IF hasBody
                THEN WithFields(base, body, DOMAIN body \ {"message"})
                ELSE base
  IN IF response.status = Num(<<"4", "2", "9">>)
        /\ response.hasRetryAfter /\ response.retryAfter # <<>>
     THEN WithFields(copied, [f \in {"retryAfter"} |-> parseInt(response.retryAfter)],
                     {"retryAfter"})
     ELSE copied

\* The domain and the context arrive in each other's place.
GetDomainByNameSwapped(outcome, contextName, domainName) ==
  IF outcome.ok THEN [returned |-> TRUE, kind |-> "payload", value |-> EmptyObject]
  ELSE IF outcome.status = Num(<<"4", "0", "4">>)
  THEN [returned |-> TRUE, kind |-> "DomainNotFound", value |-> DomainNotFound(contextName)]
  ELSE IF outcome.status = Num(<<"4", "0", "3">>)
  THEN [returned |-> TRUE, kind |-> "DomainPermissionDenied",
        value |-> DomainPermissionDenied(contextName, domainName)]
  ELSE [returned |-> FALSE, kind |-> "thrown", value |-> EmptyObject]

\* getDomainByName, given how client.fetch ended: the payload, or an error
\* with a status.  The not-found and permission-denied errors are returned,
\* any other error is rethrown.
GetDomainByName(outcome, contextName, domainName) ==
  IF outcome.ok THEN [returned |-> TRUE, kind |-> "payload", value |-> EmptyObject]
  ELSE IF outcome.status = Num(<<"4", "0", "4">>)
  THEN [returned |-> TRUE, kind |-> "DomainNotFound", value |-> DomainNotFound(domainName)]
  ELSE IF outcome.status = Num(<<"4", "0", "3">>)
  THEN [returned |-> TRUE, kind |-> "DomainPermissionDenied",
        value |-> DomainPermissionDenied(domainName, contextName)]
  ELSE [returned |-> FALSE, kind |-> "thrown", value |-> EmptyObject]

\* Inputs of the library calls.
OptionNames == {"debug", "yes"}
DomainNames == {"zeit.co", "foo.com"}
ContextNames == {"my-team", "me"}
Statuses == {Num(<<"4", "0", "3">>), Num(<<"4", "0", "4">>), Num(<<"5", "0", "0">>)}
ApiStatuses == {Num(<<"4", "2", "9">>), Num(<<"5", "0", "0">>)}
RetryAfterValues == {<<>>, <<"3", "0">>, <<"W", "e", "d">>}
ServerMessages == {"Too many requests", "Forbidden"}

Body1(name, value) == [f \in {name} |-> value]

Bodies ==
  { EmptyObject,
    Body1("code", S("team_deleted")),
    Body1("status", S("error")),
    Body1("serverMessage", S("try again")),
    Body1("message", S("ignored")) }

\* Responses an APIError is built from: rate-limited or not, with the
\* Retry-After header absent, empty, a number of seconds or a date.
ApiResponses ==
  {Response(st, FALSE, <<>>) : st \in ApiStatuses}
    \cup {Response(st, TRUE, r) : st \in ApiStatuses, r \in RetryAfterValues}

Call(fn, kind, args, value) == [fn |-> fn, kind |-> kind, args |-> args, value |-> value]

\* new TeamDeleted(), new InvalidToken() or new MissingUser().
NewPlainError(kind) ==
  /\ prior' = last
  /\ last' = Call("new", kind, <<>>,
                  CASE kind = "TeamDeleted" -> TeamDeleted
                    [] kind = "InvalidToken" -> InvalidToken
                    [] kind = "MissingUser" -> MissingUser)

NewConflictingOption(name) ==
  /\ prior' = last
  /\ last' = Call("new", "ConflictingOption", <<name>>, ConflictingOption(name))

NewDomainPermissionDenied(domain, context) ==
  /\ prior' = last
  /\ last' = Call("new", "DomainPermissionDenied", <<domain, context>>,
                  DomainPermissionDenied(domain, context))

NewDomainNotFound(domain) ==
  /\ prior' = last
  /\ last' = Call("new", "DomainNotFound", <<domain>>, DomainNotFound(domain))

NewAPIError(message, response, hasBody, body) ==
  /\ prior' = last
  /\ last' = Call("new", "APIError",
                  [message |-> message, response |-> response,
                   hasBody |-> hasBody, body |-> body],
                  APIError(message, response, hasBody, body))

CallGetDomainByName(outcome, contextName, domainName) ==
  /\ prior' = last
  /\ last' = LET r == GetDomainByName(outcome, contextName, domainName)
             IN Call("getDomainByName", r.kind,
                     [outcome |-> outcome, contextName |-> contextName,
                      domainName |-> domainName, returned |-> r.returned],
                     r.value)

\* main is not running while the library is exercised.
MainIdle ==
  /\ argv = [ids |-> <<>>, help |-> FALSE, yes |-> FALSE, safe |-> FALSE,
             hard |-> FALSE]
  /\ directory = <<>>
  /\ pc = "idle"
  /\ scopeError = NoThrow
  /\ spinner = FALSE
  /\ deployments = <<>>
  /\ matches = <<>>
  /\ probes = <<>>
  /\ probeJoin = "none"
  /\ aliases = <<>>
  /\ removals = <<>>
  /\ removeJoin = "none"
  /\ rejection = NoThrow
  /\ removed = {}
  /\ requests = <<>>
  /\ output = <<>>
  /\ lineRead = <<>>
  /\ closed = FALSE
  /\ exitCode = NoExit
  /\ thrown = NoThrow

mainVars ==
  <<argv, directory, pc, scopeError, spinner, deployments, matches, probes,
    probeJoin, aliases, removals, removeJoin, rejection, removed, requests, output,
    lineRead, closed, exitCode, thrown>>

ErrInit == MainIdle /\ last = NoCall /\ prior = NoCall

FetchOutcomes ==
  {[ok |-> TRUE, status |-> Num(<<"2", "0", "0">>)]}
    \cup {[ok |-> FALSE, status |-> st] : st \in Statuses}

ErrNext ==
  \/ \E kind \in {"TeamDeleted", "InvalidToken", "MissingUser"} :
       NewPlainError(kind) /\ UNCHANGED mainVars
  \/ \E name \in OptionNames : NewConflictingOption(name) /\ UNCHANGED mainVars
  \/ \E domain \in DomainNames, context \in ContextNames :
       NewDomainPermissionDenied(domain, context) /\ UNCHANGED mainVars
  \/ \E domain \in DomainNames : NewDomainNotFound(domain) /\ UNCHANGED mainVars
  \/ \E message \in ServerMessages, response \in ApiResponses,
        hasBody \in BOOLEAN, body \in Bodies :
       /\ (~hasBody => body = EmptyObject)
       /\ NewAPIError(message, response, hasBody, body)
       /\ UNCHANGED mainVars
  \/ \E outcome \in FetchOutcomes, contextName \in ContextNames,
        domainName \in DomainNames :
       CallGetDomainByName(outcome, contextName, domainName) /\ UNCHANGED mainVars

ErrSpec == ErrInit /\ [][ErrNext]_vars

\* The variants built on NowError.
NowErrorKinds ==
  {"TeamDeleted", "InvalidToken", "MissingUser", "ConflictingOption",
   "DomainPermissionDenied", "DomainNotFound"}

IsError(c, kinds) == c.fn # "none" /\ c.kind \in kinds

HasStringCode(obj) == "code" \in DOMAIN obj /\ obj["code"].t = "string"

\* C14 as stated: APIError included, every variant carries a string code,
\* the same for every object of a variant and different between variants.
C14_EveryVariantHasItsOwnCode ==
  /\ \A c \in {last, prior} :
       IsError(c, NowErrorKinds \cup {"APIError"}) => HasStringCode(c.value)
  /\ (IsError(last, NowErrorKinds \cup {"APIError"})
        /\ IsError(prior, NowErrorKinds \cup {"APIError"})) =>
       (last.kind = prior.kind <=> last.value["code"] = prior.value["code"])

\* C14: every variant built on NowError carries a string code, the same
\* for every object of the variant and different between variants; an
\* APIError has a code field only when the response body has one, and
\* then it is the body's.
C14_NowErrorVariantsHaveTheirOwnCode ==
  /\ \A c \in {last, prior} : IsError(c, NowErrorKinds) => HasStringCode(c.value)
  /\ (IsError(last, NowErrorKinds) /\ IsError(prior, NowErrorKinds)) =>
       (last.kind = prior.kind <=> last.value["code"] = prior.value["code"])
  /\ IsError(last, {"APIError"}) =>
       /\ "code" \in DOMAIN last.value
            <=> (last.args.hasBody /\ "code" \in DOMAIN last.args.body)
       /\ "code" \in DOMAIN last.value => last.value["code"] = last.args.body["code"]

\* A DomainNotFound was built after a DomainPermissionDenied.
C14_Witness ==
  /\ IsError(last, {"DomainNotFound"})
  /\ IsError(prior, {"DomainPermissionDenied"})
  /\ last.value["code"] # prior.value["code"]

FetchFailedWith(c, status) ==
  c.fn = "getDomainByName" /\ ~c.args.outcome.ok /\ c.args.outcome.status = status

HasMeta(obj, name, value) == name \in DOMAIN obj /\ obj[name] = S(value)

\* C15 as stated: the errors for 404 and for 403 both carry the domain
\* name and the context name.
C15_BothCarryDomainAndContext ==
  (FetchFailedWith(last, Num(<<"4", "0", "4">>))
     \/ FetchFailedWith(last, Num(<<"4", "0", "3">>))) =>
    /\ HasMeta(last.value, "meta.domain", last.args.domainName)
    /\ HasMeta(last.value, "meta.context", last.args.contextName)

\* C15: for 403 getDomainByName returns a DomainPermissionDenied with the
\* requested domain name and the context name in its meta; for 404 it
\* returns a DomainNotFound with the requested domain name only.
C15_DeniedCarriesContextNotFoundDoesNot ==
  /\ FetchFailedWith(last, Num(<<"4", "0", "3">>)) =>
       /\ last.args.returned /\ last.kind = "DomainPermissionDenied"
       /\ last.value["code"] = S("DOMAIN_PERMISSION_DENIED")
       /\ HasMeta(last.value, "meta.domain", last.args.domainName)
       /\ HasMeta(last.value, "meta.context", last.args.contextName)
  /\ FetchFailedWith(last, Num(<<"4", "0", "4">>)) =>
       /\ last.args.returned /\ last.kind = "DomainNotFound"
       /\ last.value["code"] = S("DOMAIN_NOT_FOUND")
       /\ HasMeta(last.value, "meta.domain", last.args.domainName)
       /\ "meta.context" \notin DOMAIN last.value

\* The fetch of foo.com under my-team ended with 404.
C15_Witness ==
  /\ FetchFailedWith(last, Num(<<"4", "0", "4">>))
  /\ last.args.domainName = "foo.com"
  /\ last.args.contextName = "my-team"
  /\ last.kind = "DomainNotFound"

\* C16: an APIError has the status of the response and the message of the
\* server whatever the body holds, and for status 429 it has a retryAfter
\* that is a number.
C16_StatusMessageAndRetryAfter ==
  IsError(last, {"APIError"}) =>
    /\ last.value["status"] = last.args.response.status
    /\ last.value["serverMessage"] = S(last.args.message)
    /\ last.args.response.status = Num(<<"4", "2", "9">>) =>
         /\ "retryAfter" \in DOMAIN last.value
         /\ last.value["retryAfter"].t = "number"
         /\ last.value["retryAfter"] # NaN

\* ------------------------------------------------------------ now scale
MaxScaleArgs == 3    \* arguments after `scale <url>`

\* args[j] of a JavaScript array; an argument that is not there is "".
Arg(args, j) == IF j < Len(args) THEN args[j + 1] ELSE ""

Truthy(x) == x # ""

ScaleError(name, value) == Val("error", <<name, value>>)

IsScaleError(x, name) == x.t = "error" /\ x.v[1] = name

\* 'auto' or a number of instances.
isValidMinMaxValue(x) == x \in {"auto", "0", "1", "3"}

toNumberOrAuto(x) == IF x = "auto" THEN S("auto") ELSE Num(<<x>>)

\* The min as typed: args[2], or args[3] after a datacenter; an args[3]
\* that is no min is an error, and without args[3] the min is the default.
getRawMinFromArgs(args) ==
  IF isValidMinMaxValue(Arg(args, 2)) THEN S(Arg(args, 2))
  ELSE IF isValidMinMaxValue(Arg(args, 3)) THEN S(Arg(args, 3))
  ELSE IF Truthy(Arg(args, 3)) THEN ScaleError("InvalidMinForScale", Arg(args, 3))
  ELSE S("1")

AUTO == S("auto")

getMaxFromArgs(args) ==
  LET min == getRawMinFromArgs(args)
  IN IF IsScaleError(min, "InvalidMinForScale") THEN min
     ELSE IF isValidMinMaxValue(Arg(args, 2))
     THEN IF Len(args) > 4 THEN ScaleError("InvalidArgsForMinMaxScale", min.v[1])
          ELSE IF isValidMinMaxValue(Arg(args, 3)) THEN toNumberOrAuto(Arg(args, 3))
          ELSE min
     ELSE IF ~Truthy(Arg(args, 3)) THEN AUTO
          ELSE IF isValidMinMaxValue(Arg(args, 4)) THEN toNumberOrAuto(Arg(args, 4))
          ELSE IF Truthy(Arg(args, 4)) THEN ScaleError("InvalidMaxForScale", Arg(args, 4))
          ELSE min

\* What may follow `now scale <url>`: instance counts, auto, a datacenter,
\* a word that is neither.
ScaleWords == {"1", "3", "auto", "sfo1", "many"}

ScaleArgs ==
  {<<"scale", "my-app.now.sh">> \o rest : rest \in SeqsUpTo(ScaleWords, MaxScaleArgs)}

CallGetMaxFromArgs(args) ==
  /\ last = NoCall
  /\ last' = Call("getMaxFromArgs", "max", args, getMaxFromArgs(args))
  /\ prior' = prior

ScaleInit == MainIdle /\ last = NoCall /\ prior = NoCall

ScaleNext == \E args \in ScaleArgs : CallGetMaxFromArgs(args) /\ UNCHANGED mainVars

ScaleSpec == ScaleInit /\ [][ScaleNext]_vars

\* C20: getMaxFromArgs returns the invalid-min error of getRawMinFromArgs
\* as it is, and the min stands in for the max only when no max argument
\* was supplied: a max argument that is supplied is returned as a number
\* or auto when it is a valid value and yields InvalidMaxForScale when it
\* is not, at args[3] when args[2] is a valid value and at args[4]
\* otherwise (more than four arguments in the first layout are a different
\* error and are left aside).
C20_InvalidMaxIsReported ==
  last.fn = "getMaxFromArgs" =>
    LET args == last.args
        min == getRawMinFromArgs(args)
        maxAt == IF isValidMinMaxValue(Arg(args, 2)) THEN 3 ELSE 4
        max == Arg(args, maxAt)
    IN IF IsScaleError(min, "InvalidMinForScale") THEN last.value = min
       ELSE (Truthy(max) /\ ~(maxAt = 3 /\ Len(args) > 4)) =>
              last.value = IF isValidMinMaxValue(max) THEN toNumberOrAuto(max)
                           ELSE ScaleError("InvalidMaxForScale", max)

====
